---- MODULE Spec2Model ----
(***************************************************************************)
(* NapkinVision: the artifact lifecycle engine of src/App.tsx (active      *)
(* artifact, history list, undo/redo stacks, durable slot with eviction),  *)
(* the requests it has outstanding against the synthesis service, and the  *)
(* retry wrapper withRetry of services/gemini (src/unnamed/part_006).      *)
(*                                                                         *)
(* A body (the html text) is a natural number: 0 is the empty string       *)
(* (falsy in the code), b > 0 is a non-empty text whose serialized size    *)
(* is b * b.  An id is a natural number; crypto.randomUUID() is nextId.   *)
(***************************************************************************)
EXTENDS Integers, Sequences, FiniteSets, Bags, TLC

\* ---- bounds of the model ----
MaxBody == 2        \* bodies are 1..MaxBody
MaxId == 3          \* ids handed out in one session
MaxStack == 2       \* undo + redo entries
MaxPending == 2     \* requests outstanding at once
MaxAttempts == 5    \* attempts of one withRetry call that the model follows
MaxSignals == 1     \* recognised substrings in one error message
MaxName == 2        \* artifact names are 1..MaxName
MaxLen == 5         \* tokens in one raw model text

\* ---- environment: capacity of the localStorage slot (QuotaExceededError) ----
Quota == 3

\* ---- program constants of services/gemini ----
MAX_RETRIES == 3
INITIAL_BACKOFF == 1000

NULL == [null |-> TRUE]
NoSlot == [kind |-> "absent", list |-> <<>>]    \* localStorage.getItem returns null
Corrupt == [kind |-> "corrupt", list |-> <<>>]  \* a stored string JSON.parse rejects
Stored(h) == [kind |-> "list", list |-> h]      \* JSON.stringify(h)

Bodies == 1..MaxBody
Names == 1..MaxName

\* name: promptText.slice(0, 20) || 'New Creation' of a prompt without text
NewCreation == 1
Ids == 1..MaxId

VARIABLES
  loaded,          \* the mount effect initHistory has run
  activeCreation,  \* NULL or [id, name, html]
  isGenerating,
  isRefining,
  history,         \* sequence of [id, name, html], most recent first
  undoStack,
  redoStack,
  slot,            \* localStorage['gemini_app_history']: NoSlot, Corrupt or a list
  persistPending,  \* history was set in the last render: useEffect([history]) is due
  pending,         \* bag of the requests outstanding: [kind, base]
  nextId,          \* the next value of crypto.randomUUID()
  notice,          \* the alert() dialog that is open ("none" when none is)
  lastOp,          \* history variable: the last step that changed the state
  lineage,         \* history variable: the bodies B0..Bn the active artifact
                   \* went through and the index of the current one
  rt,              \* state of one withRetry call and of the text fn returns
  exported,        \* NULL or the snapshot file the last JSON export downloaded
  frame,           \* what scripts of the rendered document did to the slot
  overlay          \* state of the LivePreview component and of its frame

appVars == <<loaded, activeCreation, isGenerating, isRefining, history,
             undoStack, redoStack, slot, persistPending, pending, nextId,
             notice, lastOp, lineage, exported, frame, overlay>>
vars == <<loaded, activeCreation, isGenerating, isRefining, history,
          undoStack, redoStack, slot, persistPending, pending, nextId,
          notice, lastOp, lineage, rt, exported, frame, overlay>>

\* ---- helpers ----
Creation(i, n, h) == [id |-> i, name |-> n, html |-> h]

ActiveId == IF activeCreation = NULL THEN 0 ELSE activeCreation.id

IdOf(c) == IF c = NULL THEN 0 ELSE c.id

\* Length of the serialized entry with body b.
Size(b) == b * b

RECURSIVE SumSizes(_)
SumSizes(h) == IF h = <<>> THEN 0 ELSE Size(Head(h).html) + SumSizes(Tail(h))

\* localStorage.setItem(JSON.stringify(h)) succeeds
Fits(h) == SumSizes(h) <= Quota

Front(s) == SubSeq(s, 1, Len(s) - 1)

LastMutant(s) == s[1]

\* stack[stack.length - 1]
Last(s) == s[Len(s)]

Reverse(s) == [i \in 1..Len(s) |-> s[Len(s) + 1 - i]]

IsPrefix(p, h) == Len(p) <= Len(h) /\ p = SubSeq(h, 1, Len(p))

HasIdMutant(h, i) == h # <<>> /\ h[1].id = i

\* prev.some(c => c.id === i)
HasId(h, i) == \E k \in 1..Len(h) : h[k].id = i

PrependMutant(c, h) == h \o <<c>>

\* [c, ...prev]
Prepend(c, h) == <<c>> \o h

SmallerHistoryMutant(newHistory) == Tail(newHistory)

\* newHistory.slice(0, -1)
SmallerHistory(newHistory) == Front(newHistory)

\* The reference the undo/redo stacks are compared with: a linear sequence of
\* bodies and a cursor.  NoLineage when no artifact is active or when the
\* body was replaced by something that is not a step of one lineage.
NoLineage == [bodies |-> <<>>, at |-> 0]

Fresh(html) == [bodies |-> <<html>>, at |-> 1]

\* persistHistory(newHistory): what one invocation leaves behind.
\*   stored / written: a setItem succeeded, and the list it stored
\*   set / state:      setHistory was called, and the argument of the last call
\*   alerted:          the "Storage full" alert was raised
RECURSIVE persistHistoryMutant(_)
persistHistoryMutant(newHistory) ==
  IF Fits(newHistory)
    THEN [stored |-> TRUE, written |-> newHistory,
          set |-> FALSE, state |-> <<>>, alerted |-> FALSE]
    ELSE IF Len(newHistory) > 1
      THEN persistHistoryMutant(Front(newHistory))
      ELSE [stored |-> FALSE, written |-> <<>>,
            set |-> FALSE, state |-> <<>>, alerted |-> TRUE]

RECURSIVE persistHistory(_)
persistHistory(newHistory) ==
  IF Fits(newHistory)
    THEN [stored |-> TRUE, written |-> newHistory,
          set |-> FALSE, state |-> <<>>, alerted |-> FALSE]
    ELSE IF Len(newHistory) > 1
      THEN LET smallerHistory == SmallerHistory(newHistory)
               inner == persistHistory(smallerHistory)
           IN [stored |-> inner.stored, written |-> inner.written,
               set |-> TRUE, state |-> smallerHistory,
               alerted |-> inner.alerted]
      ELSE [stored |-> FALSE, written |-> <<>>,
            set |-> FALSE, state |-> <<>>, alerted |-> TRUE]

\* useEffect([activeCreation?.id]): both stacks are reset when the id of the
\* rendered artifact differs from the one of the previous render.
IdEffectMutant(oldActive, newActive, stack) ==
  IF newActive = NULL THEN <<>> ELSE stack

IdEffect(oldActive, newActive, stack) ==
  IF IdOf(newActive) # IdOf(oldActive) THEN <<>> ELSE stack

\* ---- App.tsx: state after construction ----
\* The slot holds what an earlier session left: nothing, an unreadable
\* string, a list that was stored (so it fits the quota, ids unique), or a
\* list in which an entry is damaged (a JSON null where an artifact was).
InitSlots ==
  {NoSlot, Corrupt, Stored(<<Creation(1, NewCreation, 1)>>),
   Stored(<<NULL, Creation(1, NewCreation, 1)>>)}

IsEntry(item) == item # NULL

\* ---- LivePreview: state of the component and of the preview frame ----
Modes == {"interact", "inspect", "edit"}

\* Event targets of the rendered document: doc.documentElement, doc.body and
\* two elements inside the body.
Elements == {"root", "body", "a", "b"}
NoElement == "none"
NoHandler == "none"

\* useState initial values, and a frame without a document.
\*   docReady     the document shown has finished loading
\*   loadHandler  the mode the loadHandler registered on the iframe closed over
\*   listeners    the modes the listeners attached to doc.body closed over
\*   pointer      the element the mouse pointer is over
\*   highlighted  the elements carrying gemini-inspector-hover or gemini-edit-hover
\*   intercepted  a listener called preventDefault or stopPropagation on the
\*                last event of the document
OverlayIdle ==
  [interactionMode |-> "interact", viewMode |-> "preview",
   inspectedElement |-> NoElement,
   contextMenu |-> [visible |-> FALSE, target |-> NoElement],
   docReady |-> FALSE, loadHandler |-> NoHandler, listeners |-> {},
   pointer |-> NoElement, highlighted |-> {}, intercepted |-> FALSE]

\* isLoading ? ... : creation?.html ? (viewMode === 'preview' ? <iframe>)
HasFrame(o, creation, isLoading) ==
  creation # NULL /\ ~isLoading /\ o.viewMode = "preview"

\* creation?.html
HtmlOf(creation) == IF creation = NULL THEN 0 ELSE creation.html

\* The frame shows a document that starts loading; handler is the mode of
\* the loadHandler the effect registered for it, if the effect ran.
NewDocument(o, handler) ==
  [o EXCEPT !.docReady = FALSE, !.loadHandler = handler, !.listeners = {},
            !.pointer = NoElement, !.highlighted = {}, !.intercepted = FALSE]

closeMenuMutant(o) == o

\* window.addEventListener('click', closeMenu): every click in the host page
\* outside the context menu.
closeMenu(o) == [o EXCEPT !.contextMenu.visible = FALSE]

\* useEffect([creation?.html, interactionMode, viewMode]) after a render
\* with a new creation or isLoading.  No iframe: the effect returns.  The
\* same iframe and srcDoc: the document and its listeners stay.  A new
\* srcDoc: the effect registers loadHandler for the document that loads.  An
\* iframe mounted while creation?.html stayed the same: the effect does not
\* run.
AfterRender(o, creation, isLoading, newCreation, newLoading) ==
  LET had == HasFrame(o, creation, isLoading)
      has == HasFrame(o, newCreation, newLoading)
      changed == HtmlOf(creation) # HtmlOf(newCreation)
  IN IF ~has THEN NewDocument(o, NoHandler)
     ELSE IF had /\ ~changed THEN o
     ELSE NewDocument(o, IF changed THEN o.interactionMode ELSE NoHandler)

\* The rendered document has neither read nor written the slot.
NoAccess == [read |-> FALSE, wrote |-> FALSE]

\* JSON.parse(saved) or parsed.map(item => ... item.timestamp ...) throws.
LoadThrows(saved) ==
  \/ saved.kind = "corrupt"
  \/ saved.kind = "list" /\ \E k \in 1..Len(saved.list) : ~IsEntry(saved.list[k])

\* initHistory: loadedHistory stays [] when nothing is saved or the try throws.
LoadedHistory(saved) ==
  IF saved.kind = "list" /\ ~LoadThrows(saved) THEN saved.list ELSE <<>>

\* text: response.text of the call fn made; cleaned: the results of applying
\* cleanHtmlOutput to it once, twice, ...
RtIdle == [pc |-> "idle", retries |-> MAX_RETRIES, delay |-> INITIAL_BACKOFF,
           attempt |-> 0, errors |-> <<>>, waits |-> <<>>, thrown |-> 0,
           text |-> <<>>, cleaned |-> <<>>]

Init ==
  /\ loaded = FALSE
  /\ activeCreation = NULL
  /\ isGenerating = FALSE
  /\ isRefining = FALSE
  /\ history = <<>>
  /\ undoStack = <<>>
  /\ redoStack = <<>>
  /\ slot \in InitSlots
  /\ persistPending = FALSE
  /\ pending = EmptyBag
  /\ nextId = Len(SelectSeq(slot.list, IsEntry)) + 1
  /\ notice = "none"
  /\ lastOp = "init"
  /\ lineage = NoLineage
  /\ rt = RtIdle
  /\ exported = NULL
  /\ frame = NoAccess
  /\ overlay = OverlayIdle

\* An event handler or a promise continuation runs only after the effects of
\* the previous render have been flushed, and not while a modal alert() blocks
\* the thread.
Ready == loaded /\ ~persistPending /\ notice = "none"

\* The user closes the alert() dialog.
DismissAlert ==
  /\ notice # "none"
  /\ notice' = "none"
  /\ UNCHANGED <<loaded, activeCreation, isGenerating, isRefining, history,
                 undoStack, redoStack, slot, persistPending, pending, nextId,
                 lastOp, lineage, rt, exported, frame, overlay>>

HistoryEffectMutant(h) == persistHistory(h)

\* Body of useEffect([history]): if (history.length > 0) persistHistory(history).
HistoryEffect(h) ==
  IF Len(h) > 0 THEN persistHistory(h)
  ELSE [stored |-> FALSE, written |-> <<>>,
        set |-> FALSE, state |-> <<>>, alerted |-> FALSE]

\* The effects of the mount: initHistory reads the slot once and sets the
\* loaded list, then the [history] effect runs on the history of the first
\* render, which is empty.
InitHistory ==
  /\ ~loaded
  /\ loaded' = TRUE
  /\ LET loadedHistory == LoadedHistory(slot)
         r == HistoryEffect(history)
     IN /\ history' = IF Len(loadedHistory) > 0 THEN loadedHistory ELSE history
        /\ persistPending' = (Len(loadedHistory) > 0)
        /\ slot' = IF r.stored THEN Stored(r.written) ELSE slot
  /\ notice' = "none"
  /\ lastOp' = "load"
  /\ UNCHANGED <<activeCreation, isGenerating, isRefining, undoStack, redoStack,
                 pending, nextId, lineage, rt, exported, frame, overlay>>

\* The user reloads the page: the component state starts over, promises of
\* the old page are gone, the slot stays.
Restart ==
  /\ loaded
  /\ ~persistPending
  /\ notice = "none"
  /\ loaded' = FALSE
  /\ activeCreation' = NULL
  /\ isGenerating' = FALSE
  /\ isRefining' = FALSE
  /\ history' = <<>>
  /\ undoStack' = <<>>
  /\ redoStack' = <<>>
  /\ persistPending' = FALSE
  /\ pending' = EmptyBag
  /\ notice' = "none"
  /\ lastOp' = "restart"
  /\ lineage' = NoLineage
  /\ UNCHANGED <<slot, nextId, rt, exported, frame>>
  /\ overlay' = OverlayIdle

\* useEffect([history]): if (history.length > 0) persistHistory(history).
PersistEffect ==
  /\ loaded
  /\ persistPending
  /\ notice = "none"
  /\ LET r == HistoryEffect(history)
     IN /\ slot' = IF r.stored THEN Stored(r.written) ELSE slot
        /\ history' = IF r.set THEN r.state ELSE history
        /\ persistPending' = r.set
        /\ notice' = IF r.alerted THEN "storage_full" ELSE "none"
        /\ lastOp' = IF r.set THEN "persist_evict"
                     ELSE IF r.alerted THEN "persist_fail" ELSE "persist_ok"
  /\ UNCHANGED <<loaded, activeCreation, isGenerating, isRefining, undoStack,
                 redoStack, pending, nextId, lineage, rt, exported, frame, overlay>>

isFocused == activeCreation # NULL \/ isGenerating

\* A request outstanding against the synthesis service, with what the
\* handler that awaits it closed over: handleRefine reads activeCreation of
\* the render it was started in.
GenerateRequest == [kind |-> "generate", base |-> NULL]

RefineRequest(base) == [kind |-> "refine", base |-> base]

Creations == [id : Ids, name : {NewCreation}, html : Bodies]

Outstanding == BagCardinality(pending)

NumRefines == Outstanding - CopiesIn(GenerateRequest, pending)

\* handleGenerate up to its first await.  InputArea is disabled while
\* isFocused (file input disabled, handleDrop returns).
HandleGenerate ==
  /\ Ready
  /\ ~isFocused
  /\ Outstanding < MaxPending
  /\ isGenerating' = TRUE
  /\ activeCreation' = NULL
  /\ undoStack' = IdEffect(activeCreation, NULL, undoStack)
  /\ redoStack' = IdEffect(activeCreation, NULL, redoStack)
  /\ pending' = pending (+) SetToBag({GenerateRequest})
  /\ notice' = "none"
  /\ lastOp' = "generate_start"
  /\ lineage' = NoLineage
  /\ UNCHANGED <<loaded, isRefining, history, slot, persistPending, nextId, rt, exported, frame>>
  /\ overlay' = closeMenu(AfterRender(overlay, activeCreation, isGenerating,
                                    activeCreation', isGenerating'))

GenerateResolvedMutant(html, name) ==
  /\ Ready
  /\ BagIn(GenerateRequest, pending)
  /\ pending' = pending (-) SetToBag({GenerateRequest})
  /\ notice' = "none"
  /\ IF html # 0
       THEN /\ nextId <= MaxId
            /\ LET newCreation == Creation(nextId, name, html)
               IN /\ activeCreation' = newCreation
                  /\ history' = Prepend(newCreation, history)
                  /\ undoStack' = IdEffect(activeCreation, newCreation, undoStack)
                  /\ redoStack' = IdEffect(activeCreation, newCreation, redoStack)
            /\ nextId' = nextId + 1
            /\ persistPending' = TRUE
            /\ lastOp' = "generate_ok"
            /\ lineage' = Fresh(html)
       ELSE /\ lastOp' = "generate_empty"
            /\ UNCHANGED <<activeCreation, history, undoStack, redoStack,
                           nextId, persistPending, lineage>>
  /\ UNCHANGED <<loaded, isGenerating, isRefining, slot, rt, exported, frame>>
  /\ overlay' = AfterRender(overlay, activeCreation, isGenerating,
                          activeCreation', isGenerating')

\* handleGenerate after bringToLife resolved with html (0 is the empty text).
GenerateResolved(html, name) ==
  /\ Ready
  /\ BagIn(GenerateRequest, pending)
  /\ pending' = pending (-) SetToBag({GenerateRequest})
  /\ isGenerating' = FALSE
  /\ notice' = "none"
  /\ IF html # 0
       THEN /\ nextId <= MaxId
            /\ LET newCreation == Creation(nextId, name, html)
               IN /\ activeCreation' = newCreation
                  /\ history' = Prepend(newCreation, history)
                  /\ undoStack' = IdEffect(activeCreation, newCreation, undoStack)
                  /\ redoStack' = IdEffect(activeCreation, newCreation, redoStack)
            /\ nextId' = nextId + 1
            /\ persistPending' = TRUE
            /\ lastOp' = "generate_ok"
            /\ lineage' = Fresh(html)
       ELSE /\ lastOp' = "generate_empty"
            /\ UNCHANGED <<activeCreation, history, undoStack, redoStack,
                           nextId, persistPending, lineage>>
  /\ UNCHANGED <<loaded, isRefining, slot, rt, exported, frame>>
  /\ overlay' = AfterRender(overlay, activeCreation, isGenerating,
                          activeCreation', isGenerating')

\* The substrings of an error's message that getFriendlyErrorMessage looks for;
\* an error is the set of those its message contains (none for an error
\* without message).
Signals == {"429", "503", "500", "400", "SAFETY"}

Errors == {error \in SUBSET Signals : Cardinality(error) <= MaxSignals}

getFriendlyErrorMessageMutant(error) ==
  IF "429" \in error THEN "rate_limit"
  ELSE IF "503" \in error \/ "500" \in error THEN "unavailable"
  ELSE IF "400" \in error THEN "unprocessable"
  ELSE IF "SAFETY" \in error THEN "safety"
  ELSE "none"

getFriendlyErrorMessage(error) ==
  IF "429" \in error THEN "rate_limit"
  ELSE IF "503" \in error \/ "500" \in error THEN "unavailable"
  ELSE IF "400" \in error THEN "unprocessable"
  ELSE IF "SAFETY" \in error THEN "safety"
  ELSE "generic"

GenerateRejectedMutant(error) ==
  /\ Ready
  /\ BagIn(GenerateRequest, pending)
  /\ pending' = pending (-) SetToBag({GenerateRequest})
  /\ isGenerating' = FALSE
  /\ notice' = "none"
  /\ lastOp' = "generate_fail"
  /\ UNCHANGED <<loaded, activeCreation, isRefining, history, undoStack,
                 redoStack, slot, persistPending, nextId, lineage, rt, exported, frame>>
  /\ overlay' = AfterRender(overlay, activeCreation, isGenerating,
                          activeCreation', isGenerating')

\* handleGenerate after bringToLife rejected: alert, finally.
GenerateRejected(error) ==
  /\ Ready
  /\ BagIn(GenerateRequest, pending)
  /\ pending' = pending (-) SetToBag({GenerateRequest})
  /\ isGenerating' = FALSE
  /\ notice' = getFriendlyErrorMessage(error)
  /\ lastOp' = "generate_fail"
  /\ UNCHANGED <<loaded, activeCreation, isRefining, history, undoStack,
                 redoStack, slot, persistPending, nextId, lineage, rt, exported, frame>>
  /\ overlay' = AfterRender(overlay, activeCreation, isGenerating,
                          activeCreation', isGenerating')

\* setHistory(prev => prev.map(item => item.id === updated.id ? updated : item))
MapHistory(h, updatedCreation) ==
  [k \in 1..Len(h) |-> IF h[k].id = updatedCreation.id THEN updatedCreation ELSE h[k]]

\* handleRefine up to its await.  The refine form is rendered only when the
\* preview shows an artifact in interact mode and submits only when
\* !isRefining; the edit
\* context menu opens by a click in the preview frame, which the isRefining
\* overlay covers.
HandleRefine ==
  /\ Ready
  /\ activeCreation # NULL
  /\ ~isGenerating
  /\ ~isRefining
  /\ overlay.interactionMode = "interact"
  /\ Outstanding < MaxPending
  /\ Len(undoStack) + Len(redoStack) + NumRefines < MaxStack
  /\ isRefining' = TRUE
  /\ pending' = pending (+) SetToBag({RefineRequest(activeCreation)})
  /\ notice' = "none"
  /\ lastOp' = "refine_start"
  /\ UNCHANGED <<loaded, activeCreation, isGenerating, history, undoStack,
                 redoStack, slot, persistPending, nextId, lineage, rt, exported, frame>>
  /\ overlay' = closeMenu(overlay)

\* The lineage after a refinement of base resolved with newHtml.
LineageAfterRefine(base, newHtml) ==
  IF base.id # ActiveId THEN Fresh(newHtml)
  ELSE IF lineage # NoLineage /\ base = activeCreation
    THEN [bodies |-> SubSeq(lineage.bodies, 1, lineage.at) \o <<newHtml>>,
          at |-> lineage.at + 1]
    ELSE NoLineage

RefineResolvedMutant(base, newHtml) ==
  /\ Ready
  /\ BagIn(RefineRequest(base), pending)
  /\ pending' = pending (-) SetToBag({RefineRequest(base)})
  /\ isRefining' = FALSE
  /\ notice' = "none"
  /\ LET updatedCreation == [base EXCEPT !.html = newHtml]
     IN /\ undoStack' = IdEffect(activeCreation, updatedCreation,
                                 Append(undoStack, base.html))
        /\ redoStack' = IdEffect(activeCreation, updatedCreation, <<>>)
        /\ activeCreation' = updatedCreation
        /\ history' = MapHistory(history, updatedCreation)
        /\ persistPending' = TRUE
        /\ lastOp' = "refine_ok"
        /\ lineage' = LineageAfterRefine(base, newHtml)
  /\ UNCHANGED <<loaded, isGenerating, slot, nextId, rt, exported, frame>>
  /\ overlay' = AfterRender(overlay, activeCreation, isGenerating,
                          activeCreation', isGenerating')

\* handleRefine after refineApp resolved with newHtml.  activeCreation and
\* updateActiveCreationHtml are the ones of the render the handler started in.
RefineResolved(base, newHtml) ==
  /\ Ready
  /\ BagIn(RefineRequest(base), pending)
  /\ pending' = pending (-) SetToBag({RefineRequest(base)})
  /\ isRefining' = FALSE
  /\ notice' = "none"
  /\ IF newHtml # 0
       THEN LET updatedCreation == [base EXCEPT !.html = newHtml]
            IN /\ undoStack' = IdEffect(activeCreation, updatedCreation,
                                        Append(undoStack, base.html))
               /\ redoStack' = IdEffect(activeCreation, updatedCreation, <<>>)
               /\ activeCreation' = updatedCreation
               /\ history' = MapHistory(history, updatedCreation)
               /\ persistPending' = TRUE
               /\ lastOp' = "refine_ok"
               /\ lineage' = LineageAfterRefine(base, newHtml)
       ELSE /\ lastOp' = "refine_empty"
            /\ UNCHANGED <<activeCreation, history, undoStack, redoStack,
                           persistPending, lineage>>
  /\ UNCHANGED <<loaded, isGenerating, slot, nextId, rt, exported, frame>>
  /\ overlay' = AfterRender(overlay, activeCreation, isGenerating,
                          activeCreation', isGenerating')

RefineRejectedMutant(base, error) ==
  /\ Ready
  /\ BagIn(RefineRequest(base), pending)
  /\ pending' = pending (-) SetToBag({RefineRequest(base)})
  /\ isRefining' = FALSE
  /\ notice' = getFriendlyErrorMessage(error)
  /\ lastOp' = "refine_fail"
  /\ undoStack' = Append(undoStack, base.html)
  /\ redoStack' = <<>>
  /\ UNCHANGED <<loaded, activeCreation, isGenerating, history,
                 slot, persistPending, nextId, lineage, rt, exported, frame, overlay>>

\* handleRefine after refineApp rejected: alert, finally.
RefineRejected(base, error) ==
  /\ Ready
  /\ BagIn(RefineRequest(base), pending)
  /\ pending' = pending (-) SetToBag({RefineRequest(base)})
  /\ isRefining' = FALSE
  /\ notice' = getFriendlyErrorMessage(error)
  /\ lastOp' = "refine_fail"
  /\ UNCHANGED <<loaded, activeCreation, isGenerating, history, undoStack,
                 redoStack, slot, persistPending, nextId, lineage, rt, exported, frame, overlay>>

\* handleUndo.  The buttons are rendered when !isLoading && creation.
HandleUndo ==
  /\ Ready
  /\ activeCreation # NULL
  /\ ~isGenerating
  /\ notice' = "none"
  /\ IF undoStack = <<>>
       THEN UNCHANGED <<activeCreation, history, undoStack, redoStack,
                        persistPending, lastOp>>
       ELSE LET previousHtml == Last(undoStack)
                updatedCreation == [activeCreation EXCEPT !.html = previousHtml]
            IN /\ redoStack' = Append(redoStack, activeCreation.html)
               /\ undoStack' = Front(undoStack)
               /\ activeCreation' = updatedCreation
               /\ history' = MapHistory(history, updatedCreation)
               /\ persistPending' = TRUE
               /\ lastOp' = "undo"
  /\ lineage' = IF lineage # NoLineage /\ lineage.at > 1
                  THEN [lineage EXCEPT !.at = @ - 1] ELSE lineage
  /\ UNCHANGED <<loaded, isGenerating, isRefining, slot, pending, nextId, rt, exported, frame>>
  /\ overlay' = closeMenu(AfterRender(overlay, activeCreation, isGenerating,
                                    activeCreation', isGenerating'))

\* handleRedo.
HandleRedo ==
  /\ Ready
  /\ activeCreation # NULL
  /\ ~isGenerating
  /\ notice' = "none"
  /\ IF redoStack = <<>>
       THEN UNCHANGED <<activeCreation, history, undoStack, redoStack,
                        persistPending, lastOp>>
       ELSE LET nextHtml == Last(redoStack)
                updatedCreation == [activeCreation EXCEPT !.html = nextHtml]
            IN /\ undoStack' = Append(undoStack, activeCreation.html)
               /\ redoStack' = Front(redoStack)
               /\ activeCreation' = updatedCreation
               /\ history' = MapHistory(history, updatedCreation)
               /\ persistPending' = TRUE
               /\ lastOp' = "redo"
  /\ lineage' = IF lineage # NoLineage /\ lineage.at < Len(lineage.bodies)
                  THEN [lineage EXCEPT !.at = @ + 1] ELSE lineage
  /\ UNCHANGED <<loaded, isGenerating, isRefining, slot, pending, nextId, rt, exported, frame>>
  /\ overlay' = closeMenu(AfterRender(overlay, activeCreation, isGenerating,
                                    activeCreation', isGenerating'))

\* handleReset: the close button of the preview header.
HandleReset ==
  /\ Ready
  /\ isFocused
  /\ activeCreation' = NULL
  /\ isGenerating' = FALSE
  /\ isRefining' = FALSE
  /\ undoStack' = IdEffect(activeCreation, NULL, undoStack)
  /\ redoStack' = IdEffect(activeCreation, NULL, redoStack)
  /\ notice' = "none"
  /\ lastOp' = IF undoStack # <<>> \/ redoStack # <<>>
                 THEN "reset_cleared" ELSE "reset"
  /\ lineage' = NoLineage
  /\ UNCHANGED <<loaded, history, slot, persistPending, pending, nextId, rt, exported, frame>>
  /\ overlay' = closeMenu(AfterRender(overlay, activeCreation, isGenerating,
                                    activeCreation', isGenerating'))

\* handleSelectCreation: the history strip is reachable only when !isFocused.
HandleSelectCreation(i) ==
  /\ Ready
  /\ ~isFocused
  /\ i \in 1..Len(history)
  /\ activeCreation' = history[i]
  /\ undoStack' = IdEffect(activeCreation, history[i], undoStack)
  /\ redoStack' = IdEffect(activeCreation, history[i], redoStack)
  /\ notice' = "none"
  /\ lastOp' = "select"
  /\ lineage' = Fresh(history[i].html)
  /\ UNCHANGED <<loaded, isGenerating, isRefining, history, slot,
                 persistPending, pending, nextId, rt, exported, frame>>
  /\ overlay' = closeMenu(AfterRender(overlay, activeCreation, isGenerating,
                                    activeCreation', isGenerating'))

\* The snapshots a user can hand to the import: unparseable text, or a JSON
\* object with or without id, html and name.  id 0 / html 0 mean absent.
ImportSnapshots ==
  [id : 0..MaxId, name : {NewCreation}, html : Bodies]
    \cup {[id |-> 0, name |-> NewCreation, html |-> 0],
          [id |-> 0, name |-> 0, html |-> 1]}

ImportCorruptMutant ==
  /\ Ready
  /\ notice' = "import_corrupt"
  /\ activeCreation' = NULL
  /\ UNCHANGED <<loaded, isGenerating, isRefining, history,
                 undoStack, redoStack, slot, persistPending, pending, nextId,
                 lastOp, lineage, rt, exported, frame>>
  /\ overlay' = closeMenu(overlay)

\* handleImportFile, reader.onload with a text JSON.parse rejects.
ImportCorrupt ==
  /\ Ready
  /\ notice' = "import_corrupt"
  /\ UNCHANGED <<loaded, activeCreation, isGenerating, isRefining, history,
                 undoStack, redoStack, slot, persistPending, pending, nextId,
                 lastOp, lineage, rt, exported, frame>>
  /\ overlay' = closeMenu(overlay)

\* handleImportFile, reader.onload with a parsed snapshot.  An id in the file
\* is one this or an earlier session handed out.
HandleImportFile(parsed) ==
  /\ Ready
  /\ parsed.id < nextId
  /\ IF parsed.html # 0 /\ parsed.name # 0
       THEN /\ parsed.id = 0 => nextId <= MaxId
            /\ LET importedCreation ==
                     Creation(IF parsed.id # 0 THEN parsed.id ELSE nextId,
                              parsed.name, parsed.html)
                   exists == HasId(history, importedCreation.id)
               IN /\ history' = IF exists THEN history
                                ELSE Prepend(importedCreation, history)
                  /\ persistPending' = ~exists
                  /\ activeCreation' = importedCreation
                  /\ undoStack' = IdEffect(activeCreation, importedCreation, undoStack)
                  /\ redoStack' = IdEffect(activeCreation, importedCreation, redoStack)
                  /\ lastOp' = IF exists THEN "import_existing" ELSE "import_new"
                  /\ lineage' = IF importedCreation.id # ActiveId
                                  THEN Fresh(importedCreation.html)
                                ELSE IF importedCreation = activeCreation
                                  THEN lineage ELSE NoLineage
            /\ nextId' = IF parsed.id = 0 THEN nextId + 1 ELSE nextId
            /\ notice' = "none"
       ELSE /\ notice' = "import_invalid"
            /\ UNCHANGED <<activeCreation, history, undoStack, redoStack,
                           persistPending, nextId, lastOp, lineage>>
  /\ UNCHANGED <<loaded, isGenerating, isRefining, slot, pending, rt, exported, frame>>
  /\ overlay' = closeMenu(AfterRender(overlay, activeCreation, isGenerating,
                                    activeCreation', isGenerating'))

Next ==
  \/ InitHistory
  \/ Restart
  \/ DismissAlert
  \/ PersistEffect
  \/ HandleGenerate
  \/ \E html \in 0..MaxBody : GenerateResolved(html, NewCreation)
  \/ \E error \in Errors : GenerateRejected(error)
  \/ HandleRefine
  \/ \E base \in Creations, html \in 0..MaxBody : RefineResolved(base, html)
  \/ \E base \in Creations, error \in Errors : RefineRejected(base, error)
  \/ HandleUndo
  \/ HandleRedo
  \/ HandleReset
  \/ \E i \in 1..MaxId : HandleSelectCreation(i)
  \/ ImportCorrupt
  \/ \E parsed \in ImportSnapshots : HandleImportFile(parsed)

Spec == Init /\ [][Next]_vars

\* ---- services/gemini: withRetry(fn, retries = MAX_RETRIES, delay = INITIAL_BACKOFF) ----
\* rt.pc: "call" (fn is about to be invoked), "wait" (the backoff timer is
\* armed), "returned", "thrown".  errors: the status of every rejection of
\* fn so far (0: an error without status); waits: the delays waited so far.
Statuses == {0, 400, 429, 500, 503}

IsTransientMutant(status) == status >= 400

IsTransient(status) == status = 429 \/ status >= 500

NextDelayMutant(delay) == delay + INITIAL_BACKOFF

NextDelay(delay) == delay * 2

RetryInit ==
  /\ loaded = FALSE
  /\ activeCreation = NULL
  /\ isGenerating = FALSE
  /\ isRefining = FALSE
  /\ history = <<>>
  /\ undoStack = <<>>
  /\ redoStack = <<>>
  /\ slot = NoSlot
  /\ persistPending = FALSE
  /\ pending = EmptyBag
  /\ nextId = 1
  /\ notice = "none"
  /\ lastOp = "init"
  /\ lineage = NoLineage
  /\ rt = [RtIdle EXCEPT !.pc = "call"]
  /\ exported = NULL
  /\ frame = NoAccess
  /\ overlay = OverlayIdle

\* return await fn()
FnResolves ==
  /\ rt.pc = "call"
  /\ rt.attempt < MaxAttempts
  /\ rt' = [rt EXCEPT !.pc = "returned", !.attempt = @ + 1]
  /\ UNCHANGED appVars

\* catch (error): retry after the delay, or throw error
FnRejects(status) ==
  /\ rt.pc = "call"
  /\ rt.attempt < MaxAttempts
  /\ rt' = IF rt.retries > 0 /\ IsTransient(status)
             THEN [rt EXCEPT !.pc = "wait", !.attempt = @ + 1,
                             !.errors = Append(@, status)]
             ELSE [rt EXCEPT !.pc = "thrown", !.attempt = @ + 1,
                             !.errors = Append(@, status), !.thrown = status]
  /\ UNCHANGED appVars

TimerFiresMutant ==
  /\ rt.pc = "wait"
  /\ rt' = [rt EXCEPT !.pc = "call", !.waits = Append(@, rt.delay),
                      !.delay = NextDelay(@)]
  /\ UNCHANGED appVars

\* the setTimeout(resolve, delay) fires: return withRetry(fn, retries - 1, delay * 2)
TimerFires ==
  /\ rt.pc = "wait"
  /\ rt' = [rt EXCEPT !.pc = "call", !.waits = Append(@, rt.delay),
                      !.retries = @ - 1, !.delay = NextDelay(@)]
  /\ UNCHANGED appVars

RetryNext ==
  \/ FnResolves
  \/ \E status \in Statuses : FnRejects(status)
  \/ TimerFires

RetrySpec == RetryInit /\ [][RetryNext]_vars

\* Every attempt settles and every timer fires.
RetryFairSpec == RetrySpec /\ WF_vars(RetryNext)

\* ---- services/gemini: cleanHtmlOutput(text) ----
\* A text is a sequence of tokens: "fence" is the marker ```, "html" the
\* language tag html, "space" one whitespace character, "char" any other
\* character.
Tokens == {"fence", "html", "space", "char"}
Texts == UNION {[1..n -> Tokens] : n \in 0..MaxLen}

\* "<!-- Failed to generate content -->"
Failed == <<"char">>

\* \s* at the start of t
RECURSIVE SkipSpaces(_)
SkipSpaces(t) ==
  IF t # <<>> /\ Head(t) = "space" THEN SkipSpaces(Tail(t)) ELSE t

\* text.replace(/^```html\s*/, '')
StripTagged(t) ==
  IF Len(t) >= 2 /\ t[1] = "fence" /\ t[2] = "html"
    THEN SkipSpaces(SubSeq(t, 3, Len(t))) ELSE t

\* .replace(/^```\s*/, '')
StripBare(t) ==
  IF t # <<>> /\ t[1] = "fence" THEN SkipSpaces(Tail(t)) ELSE t

\* .replace(/```$/, '')
StripTrailing(t) ==
  IF t # <<>> /\ t[Len(t)] = "fence" THEN SubSeq(t, 1, Len(t) - 1) ELSE t

cleanHtmlOutput(text) ==
  IF text = <<>> THEN Failed
  ELSE StripTrailing(StripBare(StripTagged(text)))

\* fn is about to return cleanHtmlOutput(response.text || "") for some
\* response text.
CleanInit ==
  /\ loaded = FALSE
  /\ activeCreation = NULL
  /\ isGenerating = FALSE
  /\ isRefining = FALSE
  /\ history = <<>>
  /\ undoStack = <<>>
  /\ redoStack = <<>>
  /\ slot = NoSlot
  /\ persistPending = FALSE
  /\ pending = EmptyBag
  /\ nextId = 1
  /\ notice = "none"
  /\ lastOp = "init"
  /\ lineage = NoLineage
  /\ \E text \in Texts : rt = [RtIdle EXCEPT !.pc = "call", !.text = text]
  /\ exported = NULL
  /\ frame = NoAccess
  /\ overlay = OverlayIdle

\* return cleanHtmlOutput(response.text || "")
FnReturnsCleaned ==
  /\ rt.pc = "call"
  /\ rt.cleaned = <<>>
  /\ rt' = [rt EXCEPT !.pc = "returned", !.attempt = @ + 1,
                      !.cleaned = <<cleanHtmlOutput(rt.text)>>]
  /\ UNCHANGED appVars

\* cleanHtmlOutput applied to its own result.
CleanedAgain ==
  /\ rt.pc = "returned"
  /\ Len(rt.cleaned) = 1
  /\ rt' = [rt EXCEPT !.cleaned = Append(@, cleanHtmlOutput(rt.cleaned[1]))]
  /\ UNCHANGED appVars

CleanNext ==
  \/ FnReturnsCleaned
  \/ CleanedAgain

CleanSpec == CleanInit /\ [][CleanNext]_vars

\* ---- export and import of snapshot files ----
\* JSON.stringify(creation, null, 2): the file holds the artifact's fields.
StringifyMutant(creation) ==
  [id |-> creation.id, name |-> NewCreation, html |-> creation.html]

Stringify(creation) ==
  [id |-> creation.id, name |-> creation.name, html |-> creation.html]

\* handleExportJson.  The button is rendered when !isLoading && creation.
ExportJson ==
  /\ Ready
  /\ activeCreation # NULL
  /\ ~isGenerating
  /\ exported' = Stringify(activeCreation)
  /\ UNCHANGED <<loaded, activeCreation, isGenerating, isRefining, history,
                 undoStack, redoStack, slot, persistPending, pending, nextId,
                 notice, lastOp, lineage, rt, frame>>
  /\ overlay' = closeMenu(overlay)

\* The user picks the exported file in the import dialog, as downloaded or
\* with the id removed.
ImportExported(keepId) ==
  /\ exported # NULL
  /\ HandleImportFile(IF keepId THEN exported ELSE [exported EXCEPT !.id = 0])

\* A session that has settled with a history of named artifacts: the slot
\* holds the list, or the only entry was too large to store.
NamedCreations == [id : 1..2, name : Names, html : Bodies]

NamedHistories ==
  {<<>>} \cup {<<c>> : c \in NamedCreations}
         \cup {h \in {<<c, d>> : c, d \in NamedCreations} :
                 h[1].id # h[2].id /\ Fits(h)}

RoundTripInit ==
  /\ loaded = TRUE
  /\ activeCreation = NULL
  /\ isGenerating = FALSE
  /\ isRefining = FALSE
  /\ history \in NamedHistories
  /\ undoStack = <<>>
  /\ redoStack = <<>>
  /\ slot = IF history # <<>> /\ Fits(history) THEN Stored(history) ELSE NoSlot
  /\ persistPending = FALSE
  /\ pending = EmptyBag
  /\ nextId = 3
  /\ notice = "none"
  /\ lastOp = "init"
  /\ lineage = NoLineage
  /\ rt = RtIdle
  /\ exported = NULL
  /\ frame = NoAccess
  /\ overlay = OverlayIdle

RoundTripNext ==
  \/ \E i \in 1..MaxId : HandleSelectCreation(i)
  \/ HandleReset
  \/ ExportJson
  \/ \E keepId \in BOOLEAN : ImportExported(keepId)
  \/ PersistEffect
  \/ DismissAlert

RoundTripSpec == RoundTripInit /\ [][RoundTripNext]_vars

\* ---- the preview frame ----
\* <iframe srcDoc={creation.html} sandbox="...">
Sandbox ==
  {"allow-scripts", "allow-forms", "allow-popups", "allow-modals",
   "allow-same-origin"}

\* Scripts of the document run only with allow-scripts.
ScriptsRun(sandbox) == "allow-scripts" \in sandbox

\* A srcdoc document has the origin of the page that embeds it, unless the
\* sandbox lacks allow-same-origin: then its origin is opaque and
\* window.localStorage throws.
FrameOrigin(sandbox) ==
  IF "allow-same-origin" \in sandbox THEN "host" ELSE "opaque"

FrameReachesSlot(sandbox) == ScriptsRun(sandbox) /\ FrameOrigin(sandbox) = "host"

\* The frame is rendered while an artifact is shown.
FrameRendered ==
  loaded /\ notice = "none" /\ HasFrame(overlay, activeCreation, isGenerating)

\* A script of the body calls localStorage.getItem('gemini_app_history').
FrameReadsSlot ==
  /\ FrameRendered
  /\ FrameReachesSlot(Sandbox)
  /\ frame' = [frame EXCEPT !.read = TRUE]
  /\ UNCHANGED <<loaded, activeCreation, isGenerating, isRefining, history,
                 undoStack, redoStack, slot, persistPending, pending, nextId,
                 notice, lastOp, lineage, rt, exported, overlay>>

\* A script of the body calls localStorage.setItem('gemini_app_history', text)
\* with a text that is no JSON.
FrameWritesSlot ==
  /\ FrameRendered
  /\ FrameReachesSlot(Sandbox)
  /\ slot' = Corrupt
  /\ frame' = [frame EXCEPT !.wrote = TRUE]
  /\ UNCHANGED <<loaded, activeCreation, isGenerating, isRefining, history,
                 undoStack, redoStack, persistPending, pending, nextId,
                 notice, lastOp, lineage, rt, exported, overlay>>

\* ---- LivePreview: overlay modes ----
\* The effect after a render with a new interactionMode on the same
\* document: the cleanup removes the loadHandler registered before, the
\* effect registers one of the new mode and calls it at once when
\* readyState === 'complete'.  The listeners attached to doc.body earlier are
\* not removed (the function loadHandler returns is not used).
AfterModeChange(o, m) ==
  [o EXCEPT !.loadHandler = m,
            !.listeners = IF o.docReady THEN @ \cup {m} ELSE @]

SetInteractionModeMutant(m) ==
  /\ Ready
  /\ activeCreation # NULL
  /\ ~isGenerating
  /\ overlay.viewMode = "preview"
  /\ m \in Modes
  /\ LET o == [overlay EXCEPT
                 !.interactionMode = IF m = "edit" THEN "smart-edit" ELSE m,
                 !.inspectedElement = NoElement]
     IN overlay' = closeMenu(IF m # overlay.interactionMode
                               THEN AfterModeChange(o, m) ELSE o)
  /\ UNCHANGED <<loaded, activeCreation, isGenerating, isRefining, history,
                 undoStack, redoStack, slot, persistPending, pending, nextId,
                 notice, lastOp, lineage, rt, exported, frame>>

\* A mode button: setInteractionMode(m); setInspectedElement(null).  The
\* buttons are rendered when !isLoading && creation && viewMode === 'preview'.
SetInteractionMode(m) ==
  /\ Ready
  /\ activeCreation # NULL
  /\ ~isGenerating
  /\ overlay.viewMode = "preview"
  /\ m \in Modes
  /\ LET o == [overlay EXCEPT !.interactionMode = m,
                              !.inspectedElement = NoElement]
     IN overlay' = closeMenu(IF m # overlay.interactionMode
                               THEN AfterModeChange(o, m) ELSE o)
  /\ UNCHANGED <<loaded, activeCreation, isGenerating, isRefining, history,
                 undoStack, redoStack, slot, persistPending, pending, nextId,
                 notice, lastOp, lineage, rt, exported, frame>>

\* The view button: setViewMode(prev => prev === 'preview' ? 'code' : 'preview').
\* The code view has no iframe; back in the preview a new iframe is mounted
\* and the effect runs for it.
ToggleViewMode ==
  /\ Ready
  /\ activeCreation # NULL
  /\ ~isGenerating
  /\ overlay' = closeMenu(
       IF overlay.viewMode = "preview"
         THEN NewDocument([overlay EXCEPT !.viewMode = "code"], NoHandler)
         ELSE NewDocument([overlay EXCEPT !.viewMode = "preview"],
                          overlay.interactionMode))
  /\ UNCHANGED <<loaded, activeCreation, isGenerating, isRefining, history,
                 undoStack, redoStack, slot, persistPending, pending, nextId,
                 notice, lastOp, lineage, rt, exported, frame>>

\* The iframe's load event: the loadHandler registered on it attaches
\* handleMouseOver, handleMouseOut and handleClick to doc.body.
FrameLoads ==
  /\ Ready
  /\ HasFrame(overlay, activeCreation, isGenerating)
  /\ ~overlay.docReady
  /\ overlay' = [overlay EXCEPT
                   !.docReady = TRUE,
                   !.listeners = IF overlay.loadHandler # NoHandler
                                   THEN {overlay.loadHandler} ELSE {}]
  /\ UNCHANGED <<loaded, activeCreation, isGenerating, isRefining, history,
                 undoStack, redoStack, slot, persistPending, pending, nextId,
                 notice, lastOp, lineage, rt, exported, frame>>

\* The listeners of doc.body that do not return at once.
Acting(o) == o.listeners \ {"interact"}

\* An event whose target is doc.documentElement does not pass through
\* doc.body.
ReachesBody(target) == target # "root"

\* The pointer enters target: every handleMouseOver attached runs with the
\* mode it closed over.  The isRefining layer covers the frame.
MouseOver(target) ==
  /\ Ready
  /\ HasFrame(overlay, activeCreation, isGenerating)
  /\ ~isRefining
  /\ target \in Elements
  /\ overlay.pointer = NoElement
  /\ LET acts == ReachesBody(target) /\ Acting(overlay) # {}
     IN overlay' = [overlay EXCEPT
                      !.pointer = target,
                      !.intercepted = acts,
                      !.highlighted = IF acts /\ target # "body"
                                        THEN @ \cup {target} ELSE @]
  /\ UNCHANGED <<loaded, activeCreation, isGenerating, isRefining, history,
                 undoStack, redoStack, slot, persistPending, pending, nextId,
                 notice, lastOp, lineage, rt, exported, frame>>

MouseOutMutant ==
  /\ Ready
  /\ HasFrame(overlay, activeCreation, isGenerating)
  /\ overlay.pointer # NoElement
  /\ LET acts == ReachesBody(overlay.pointer) /\ Acting(overlay) # {}
     IN overlay' = [overlay EXCEPT !.pointer = NoElement,
                                   !.intercepted = acts]
  /\ UNCHANGED <<loaded, activeCreation, isGenerating, isRefining, history,
                 undoStack, redoStack, slot, persistPending, pending, nextId,
                 notice, lastOp, lineage, rt, exported, frame>>

\* The pointer leaves the element it is over: every handleMouseOut attached
\* runs with the mode it closed over.
MouseOut ==
  /\ Ready
  /\ HasFrame(overlay, activeCreation, isGenerating)
  /\ overlay.pointer # NoElement
  /\ LET acts == ReachesBody(overlay.pointer) /\ Acting(overlay) # {}
     IN overlay' = [overlay EXCEPT
                      !.pointer = NoElement,
                      !.intercepted = acts,
                      !.highlighted = IF acts THEN @ \ {overlay.pointer} ELSE @]
  /\ UNCHANGED <<loaded, activeCreation, isGenerating, isRefining, history,
                 undoStack, redoStack, slot, persistPending, pending, nextId,
                 notice, lastOp, lineage, rt, exported, frame>>

\* handleClick of a listener that closed over mode, on the state o.
handleClickMutant(o, mode, target) ==
  IF mode = "inspect"
    THEN [o EXCEPT !.inspectedElement = target]
  ELSE IF mode = "edit"
    THEN [o EXCEPT !.contextMenu = IF @.visible THEN @
                                   ELSE [visible |-> TRUE, target |-> target]]
  ELSE o

handleClick(o, mode, target) ==
  IF mode = "inspect"
    THEN [o EXCEPT !.inspectedElement = target]
  ELSE IF mode = "edit"
    THEN [o EXCEPT !.contextMenu = [visible |-> TRUE, target |-> target]]
  ELSE o

\* A click on the element the pointer is over: every handleClick attached
\* to doc.body runs with the mode it closed over.  The isRefining layer
\* covers the frame.
ClickInFrame ==
  /\ Ready
  /\ HasFrame(overlay, activeCreation, isGenerating)
  /\ ~isRefining
  /\ overlay.pointer # NoElement
  /\ LET target == overlay.pointer
         acts == ReachesBody(target) /\ Acting(overlay) # {}
         o1 == IF ReachesBody(target) /\ "inspect" \in overlay.listeners
                 THEN handleClick(overlay, "inspect", target) ELSE overlay
         o2 == IF ReachesBody(target) /\ "edit" \in overlay.listeners
                 THEN handleClick(o1, "edit", target) ELSE o1
     IN overlay' = [o2 EXCEPT !.intercepted = acts]
  /\ UNCHANGED <<loaded, activeCreation, isGenerating, isRefining, history,
                 undoStack, redoStack, slot, persistPending, pending, nextId,
                 notice, lastOp, lineage, rt, exported, frame>>

\* The buttons of the context menu and the answers to window.prompt and
\* window.confirm.
MenuActions == {"color", "text", "size", "delete"}
Answers == {"cancel", "empty", "text", "ok"}

\* prompt is set: window.prompt returned a non-empty text, or window.confirm
\* returned true.
PromptSetMutant(action, answer) ==
  \/ action \in {"color", "text", "size"} /\ answer = "text"
  \/ action = "delete"

PromptSet(action, answer) ==
  \/ action \in {"color", "text", "size"} /\ answer = "text"
  \/ action = "delete" /\ answer = "ok"

\* handleContextMenuAction(action) with the user's answer to the dialog it
\* opens; onRefine is handleRefine up to its await.  The menu is rendered
\* when contextMenu.visible && interactionMode === 'edit'.
HandleContextMenuAction(action, answer) ==
  /\ Ready
  /\ overlay.contextMenu.visible
  /\ overlay.interactionMode = "edit"
  /\ overlay.contextMenu.target # NoElement
  /\ action \in MenuActions
  /\ answer \in IF action = "delete" THEN {"ok", "cancel"}
                ELSE {"cancel", "empty", "text"}
  /\ IF PromptSet(action, answer) /\ activeCreation # NULL
       THEN /\ Outstanding < MaxPending
            /\ Len(undoStack) + Len(redoStack) + NumRefines < MaxStack
            /\ isRefining' = TRUE
            /\ pending' = pending (+) SetToBag({RefineRequest(activeCreation)})
            /\ lastOp' = IF action = "delete" THEN "remove_confirmed"
                          ELSE "refine_start"
       ELSE /\ lastOp' = IF action = "delete" THEN "remove_declined"
                          ELSE lastOp
            /\ UNCHANGED <<isRefining, pending>>
  /\ overlay' = closeMenu(overlay)
  /\ UNCHANGED <<loaded, activeCreation, isGenerating, history, undoStack,
                 redoStack, slot, persistPending, nextId, notice, lineage, rt,
                 exported, frame>>

\* A click in the host page that is on none of its controls.
WindowClick ==
  /\ Ready
  /\ overlay.contextMenu.visible
  /\ overlay' = closeMenu(overlay)
  /\ UNCHANGED <<loaded, activeCreation, isGenerating, isRefining, history,
                 undoStack, redoStack, slot, persistPending, pending, nextId,
                 notice, lastOp, lineage, rt, exported, frame>>

\* A session with one stored artifact, seen through the preview.
OverlayInit ==
  /\ loaded = TRUE
  /\ activeCreation = NULL
  /\ isGenerating = FALSE
  /\ isRefining = FALSE
  /\ history = <<Creation(1, NewCreation, 1)>>
  /\ undoStack = <<>>
  /\ redoStack = <<>>
  /\ slot = Stored(history)
  /\ persistPending = FALSE
  /\ pending = EmptyBag
  /\ nextId = 2
  /\ notice = "none"
  /\ lastOp = "init"
  /\ lineage = NoLineage
  /\ rt = RtIdle
  /\ exported = NULL
  /\ frame = NoAccess
  /\ overlay = OverlayIdle

OverlayNext ==
  \/ PersistEffect
  \/ DismissAlert
  \/ \E i \in 1..MaxId : HandleSelectCreation(i)
  \/ HandleReset
  \/ HandleRefine
  \/ \E base \in Creations, html \in 0..MaxBody : RefineResolved(base, html)
  \/ \E base \in Creations, error \in Errors : RefineRejected(base, error)
  \/ HandleUndo
  \/ HandleRedo
  \/ \E m \in Modes : SetInteractionMode(m)
  \/ ToggleViewMode
  \/ FrameLoads
  \/ \E target \in Elements : MouseOver(target)
  \/ MouseOut
  \/ ClickInFrame
  \/ \E action \in MenuActions, answer \in Answers :
        HandleContextMenuAction(action, answer)
  \/ WindowClick

OverlaySpec == OverlayInit /\ [][OverlayNext]_vars

\* A session with one stored artifact in which artifacts are generated,
\* imported, switched and edited while the preview loads their documents.
\* The file imported is an export of the stored artifact.
LifecycleImports == {[id |-> 1, name |-> NewCreation, html |-> 1]}

LifecycleNext ==
  \/ PersistEffect
  \/ HandleGenerate
  \/ \E html \in 0..1 : GenerateResolved(html, NewCreation)
  \/ \E i \in 1..MaxId : HandleSelectCreation(i)
  \/ HandleReset
  \/ \E parsed \in LifecycleImports : HandleImportFile(parsed)
  \/ HandleRefine
  \/ \E base \in Creations, html \in 0..MaxBody : RefineResolved(base, html)
  \/ HandleUndo
  \/ HandleRedo
  \/ \E m \in Modes : SetInteractionMode(m)
  \/ ToggleViewMode
  \/ FrameLoads

LifecycleSpec == OverlayInit /\ [][LifecycleNext]_vars

\* A session in which the rendered documents carry scripts of their own.
SandboxNext ==
  \/ InitHistory
  \/ Restart
  \/ PersistEffect
  \/ DismissAlert
  \/ \E i \in 1..MaxId : HandleSelectCreation(i)
  \/ HandleReset
  \/ ImportCorrupt
  \/ \E parsed \in ImportSnapshots : HandleImportFile(parsed)
  \/ FrameReadsSlot
  \/ FrameWritesSlot

SandboxSpec == Init /\ [][SandboxNext]_vars

\* The persist effect always runs after a render that set history, and the
\* user closes an alert that blocks the page.
FairSpec == Spec /\ WF_vars(PersistEffect) /\ WF_vars(DismissAlert)

\* ---- properties ----
Timeline == undoStack \o <<activeCreation.html>> \o Reverse(redoStack)

ProgramUnchanged ==
  UNCHANGED <<activeCreation, isGenerating, isRefining, history, undoStack,
              redoStack, slot, persistPending, pending, nextId>>

\* C1: undo/redo law.  For one active artifact whose bodies B0..Bn were
\* produced by refinements applied one after another, the undo stack, the
\* active body and the reversed redo stack always spell B0..Bn, with the
\* active body at the cursor that undo moves down and redo moves up (so n
\* undos give B0 and n redos give Bn again); undo with an empty undo stack
\* and redo with an empty redo stack change nothing.
C1_UndoRedoLaw ==
  /\ [](lineage # NoLineage =>
          /\ activeCreation # NULL
          /\ Timeline = lineage.bodies
          /\ Len(undoStack) = lineage.at - 1)
  /\ [][(HandleUndo /\ undoStack = <<>>) => ProgramUnchanged]_vars
  /\ [][(HandleRedo /\ redoStack = <<>>) => ProgramUnchanged]_vars

C1_Witness ==
  /\ lastOp = "undo"
  /\ Len(lineage.bodies) >= 3
  /\ lineage.at = 1
  /\ lineage.bodies[1] # lineage.bodies[2]
  /\ activeCreation.html = lineage.bodies[1]

\* C2: every successful refinement pushes the body it refined onto the undo
\* stack and leaves the redo stack empty.
C2_RefinePushesPrevious ==
  [][\A base \in Creations, newHtml \in Bodies :
       RefineResolved(base, newHtml) =>
         (undoStack' = Append(undoStack, base.html) /\ redoStack' = <<>>)]_vars

\* C3: whenever the id of the active artifact changes (to another artifact,
\* or to none), both stacks are empty afterwards.
C3_SwitchClearsStacks ==
  [][ActiveId' # ActiveId => (undoStack' = <<>> /\ redoStack' = <<>>)]_vars

C3_Witness ==
  /\ lastOp = "reset_cleared"
  /\ activeCreation = NULL
  /\ undoStack = <<>>
  /\ redoStack = <<>>

\* C4: if the active artifact's id is in history, that entry has the active
\* artifact's body.
C4_ActiveSynced ==
  activeCreation # NULL =>
    \A k \in 1..Len(history) :
      history[k].id = activeCreation.id => history[k].html = activeCreation.html

\* C5: no two history entries share an id.
C5_UniqueIds ==
  \A i, j \in 1..Len(history) : history[i].id = history[j].id => i = j

C5_Witness ==
  /\ lastOp = "import_existing"
  /\ Len(history) >= 2

C7_EvictionPrefix ==
  [][(PersistEffect /\ history # <<>> /\ ~Fits(history)) =>
       \/ /\ notice' # "storage_full"
          /\ slot'.kind = "list"
          /\ slot'.list # <<>>
          /\ IsPrefix(slot'.list, history)
          /\ Len(slot'.list) < Len(history)
          /\ Fits(slot'.list)
       \/ /\ notice' = "storage_full"
          /\ slot' = slot
          /\ ~Fits(<<history[1]>>)]_vars

C7_Witness ==
  /\ lastOp = "persist_evict"
  /\ notice = "none"
  /\ slot.kind = "list"
  /\ Len(slot.list) < Len(history)
  /\ IsPrefix(slot.list, history)

\* C8 as stated: after a history change, if some entry fits in the slot
\* alone, the in-memory list eventually equals the stored list.
C8_EventuallyConsistentAnyEntry ==
  (persistPending /\ history # <<>> /\ \E k \in 1..Len(history) : Fits(<<history[k]>>))
    ~> (slot = Stored(history))

\* C8 amended: after a history change, if the newest entry (position 0) fits
\* in the slot alone, the effects settle with the in-memory list equal to the
\* stored list.
C8_EventuallyConsistent ==
  (persistPending /\ history # <<>> /\ Fits(<<history[1]>>))
    ~> (~persistPending /\ slot = Stored(history))

C8_Witness ==
  /\ lastOp = "persist_ok"
  /\ slot = Stored(history)
  /\ Len(history) >= 2

\* C9: at most one request (generate or refine) is outstanding at any time.
C9_OneRequest == Outstanding <= 1

\* C10: the k-th retry starts after INITIAL_BACKOFF * 2^(k-1) ms; a transient
\* error on attempt k < MAX_RETRIES arms the timer with that delay and is
\* followed by exactly one more attempt.
Pow2(n) == IF n = 0 THEN 1 ELSE IF n = 1 THEN 2 ELSE IF n = 2 THEN 4
           ELSE IF n = 3 THEN 8 ELSE IF n = 4 THEN 16 ELSE 32

C10_RetryBackoff ==
  /\ \A k \in 1..Len(rt.waits) : rt.waits[k] = INITIAL_BACKOFF * Pow2(k - 1)
  /\ \A k \in 1..Len(rt.errors) :
       (k < MAX_RETRIES /\ IsTransient(rt.errors[k])) =>
         \/ /\ k = Len(rt.errors)
            /\ rt.pc = "wait"
            /\ Len(rt.waits) = k - 1
            /\ rt.delay = INITIAL_BACKOFF * Pow2(k - 1)
         \/ Len(rt.waits) >= k
  /\ Len(rt.waits) <= Len(rt.errors)
  /\ rt.attempt <= Len(rt.waits) + 1

C10_Witness ==
  /\ rt.pc = "call"
  /\ rt.attempt = 2
  /\ rt.waits = <<1000, 2000>>

\* C11: an error whose status is neither 429 nor >= 500 is never retried: it
\* is the error of the last invocation, that invocation is followed by no
\* further one, the same error is thrown to the caller, and no backoff wait
\* follows it.
C11_NonTransientNotRetried ==
  \A k \in 1..Len(rt.errors) :
    ~(rt.errors[k] = 429 \/ rt.errors[k] >= 500) =>
      /\ k = Len(rt.errors)
      /\ rt.attempt = k
      /\ rt.pc = "thrown"
      /\ rt.thrown = rt.errors[k]
      /\ Len(rt.waits) = k - 1

C11_Witness ==
  /\ rt.pc = "thrown"
  /\ rt.errors = <<503, 400>>
  /\ rt.waits = <<INITIAL_BACKOFF>>

AllTransient(errors) ==
  \A k \in 1..Len(errors) : errors[k] = 429 \/ errors[k] >= 500

\* C12: withRetry terminates when every attempt settles: it returns or throws;
\* it never waits more than MAX_RETRIES = 3 times, and when every attempt
\* failed with a transient error it throws the error of the last (fourth)
\* attempt.
C12_RetryTerminates ==
  /\ <>(rt.pc \in {"returned", "thrown"})
  /\ [](Len(rt.waits) <= 3 /\ rt.attempt <= 3 + 1)
  /\ []((rt.pc = "thrown" /\ AllTransient(rt.errors)) =>
          /\ Len(rt.errors) = 3 + 1
          /\ rt.attempt = 3 + 1
          /\ rt.thrown = Last(rt.errors))

C12_Witness ==
  /\ rt.pc = "thrown"
  /\ rt.errors = <<503, 429, 500, 429>>
  /\ rt.thrown = 429
  /\ rt.waits = <<1000, 2000, 4000>>

FriendlyMessages ==
  {"rate_limit", "unavailable", "unprocessable", "safety", "generic"}

\* C13: every rejected generate or refine call raises exactly one notice (none
\* is open before it, one is open after it) whose text is one of the five
\* fixed messages, and an error with no recognised signal gets the generic
\* message.
C13_FailureNotice ==
  [][(pending' # pending /\ lastOp' \in {"generate_fail", "refine_fail"}) =>
       /\ notice = "none"
       /\ notice' \in FriendlyMessages
       /\ (GenerateRejected({}) \/ \E base \in Creations : RefineRejected(base, {})) =>
            notice' = "generic"]_vars

C13_Witness ==
  /\ lastOp = "refine_fail"
  /\ notice = "generic"
  /\ activeCreation # NULL

\* The failures the program catches, as steps.
RemoteFailed ==
  pending' # pending /\ lastOp' \in {"generate_fail", "refine_fail"}

WriteFailed == PersistEffect /\ ~Fits(history)

LoadFailed == InitHistory /\ LoadThrows(slot)

ImportFailed ==
  \/ ImportCorrupt
  \/ \E parsed \in ImportSnapshots :
       ~(parsed.html # 0 /\ parsed.name # 0) /\ HandleImportFile(parsed)

\* What a caught failure leads to: a notice, or an eviction after which the
\* write is tried again.
Handled ==
  \/ notice' # "none"
  \/ persistPending' /\ Len(history') < Len(history)

C15_RoundTrip ==
  /\ [][ExportJson =>
          /\ exported'.id = activeCreation.id
          /\ exported'.name = activeCreation.name
          /\ exported'.html = activeCreation.html]_vars
  /\ [][ImportExported(TRUE) =>
          /\ activeCreation' # NULL
          /\ activeCreation'.html = exported.html
          /\ activeCreation'.name = exported.name
          /\ activeCreation'.id = exported.id]_vars
  /\ [][ImportExported(FALSE) =>
          /\ activeCreation' # NULL
          /\ activeCreation'.html = exported.html
          /\ activeCreation'.name = exported.name
          /\ activeCreation'.id # exported.id
          /\ ~HasId(history, activeCreation'.id)
          /\ activeCreation'.id # ActiveId]_vars

C15_Witness ==
  /\ lastOp = "import_existing"
  /\ exported # NULL
  /\ exported.name = 2
  /\ exported.html = 2
  /\ activeCreation = Creation(exported.id, exported.name, exported.html)

\* C16: an import of unparseable text, or of a snapshot without body or
\* without name, raises a notice and leaves history, the active artifact and
\* both stacks as they were.
C16_MalformedImportRejected ==
  [][(\/ ImportCorrupt
      \/ \E parsed \in ImportSnapshots :
           (parsed.html = 0 \/ parsed.name = 0) /\ HandleImportFile(parsed)) =>
       /\ notice' \in {"import_corrupt", "import_invalid"}
       /\ UNCHANGED <<history, activeCreation, undoStack, redoStack>>]_vars

C16_Witness ==
  /\ notice = "import_invalid"
  /\ activeCreation # NULL
  /\ undoStack # <<>>
  /\ redoStack # <<>>
  /\ Len(history) >= 2

\* C17: startup always completes, and when the stored list holds entries that
\* fail to parse the session starts with the remaining entries of that list,
\* in their order, without a notice.
C17_LoadDropsBadEntries ==
  [][InitHistory =>
       /\ loaded'
       /\ notice' = "none"
       /\ (slot.kind = "list" => history' = SelectSeq(slot.list, IsEntry))]_vars

\* C18: every change of history schedules a write of the slot; after a write
\* that succeeded without eviction the slot holds the in-memory list; a
\* restart leaves the slot as it is; and startup does not write the slot and
\* loads the stored list, same artifacts in the same order.
C18_PersistsAcrossSessions ==
  /\ [][(loaded' /\ history' # history) => persistPending']_vars
  /\ []((loaded /\ ~persistPending /\ lastOp = "persist_ok") =>
          slot = Stored(history))
  /\ [][Restart => slot' = slot]_vars
  /\ [][InitHistory =>
          /\ slot' = slot
          /\ (slot.kind = "list" /\ ~LoadThrows(slot)) => history' = slot.list]_vars

C18_Witness ==
  /\ lastOp = "load"
  /\ Len(history) >= 2
  /\ slot = Stored(history)
  /\ history[1].html # history[2].html \/ history[1].id > history[2].id

\* C19: code running in the rendered document never reads and never writes
\* the host's storage slot.
C19_FrameIsolated == ~frame.read /\ ~frame.wrote

\* C20: the overlay mode starts as interact, is always one of interact,
\* inspect and edit, and changes only in a step in which the user selects a
\* mode: no click in the rendered document, refinement, undo, redo, artifact
\* switch or view toggle changes it.
C20_ModeChangesOnlyBySelection ==
  /\ overlay.interactionMode = "interact"
  /\ [](overlay.interactionMode \in {"interact", "inspect", "edit"})
  /\ [][overlay'.interactionMode # overlay.interactionMode =>
          \E m \in {"interact", "inspect", "edit"} : SetInteractionMode(m)]_vars

C20_Witness ==
  /\ overlay.interactionMode = "edit"
  /\ overlay.contextMenu.target = "a"
  /\ overlay.viewMode = "code"
  /\ lastOp = "undo"
  /\ activeCreation # NULL /\ activeCreation.id = 1

\* An event of the rendered document.
FrameEvent ==
  \/ ClickInFrame
  \/ MouseOut
  \/ \E target \in Elements : MouseOver(target)

\* C21: while the mode is interact, whatever modes were selected before on
\* the same document, no hover or click event of the rendered document is
\* intercepted: no listener suppresses the native action or stops the event,
\* no element gets a highlight, and neither the inspection report nor the
\* context-menu state changes.
C21_InteractPassesThrough ==
  [][overlay.interactionMode = "interact" /\ FrameEvent =>
       /\ ~overlay'.intercepted
       /\ overlay'.highlighted \subseteq overlay.highlighted
       /\ overlay'.inspectedElement = overlay.inspectedElement
       /\ overlay'.contextMenu = overlay.contextMenu]_vars

\* The inspector panel is rendered: creation?.html is shown and
\* interactionMode === 'inspect' && inspectedElement.
ReportVisible ==
  /\ activeCreation # NULL
  /\ ~isGenerating
  /\ overlay.interactionMode = "inspect"
  /\ overlay.inspectedElement # NoElement

\* The context menu is rendered: contextMenu.visible && interactionMode === 'edit'.
MenuVisible ==
  /\ overlay.contextMenu.visible
  /\ overlay.interactionMode = "edit"

\* C22: a step that changes the mode leaves no inspection report stored and
\* no context menu stored as visible, so in the mode it enters neither is
\* shown; a report or a visible menu is stored again only by a click in the
\* rendered document.
C22_SwitchClearsReportAndMenu ==
  /\ [][overlay'.interactionMode # overlay.interactionMode =>
          /\ overlay'.inspectedElement = NoElement
          /\ ~overlay'.contextMenu.visible
          /\ ~ReportVisible' /\ ~MenuVisible']_vars
  /\ [][(\/ overlay.inspectedElement = NoElement
            /\ overlay'.inspectedElement # NoElement
         \/ ~overlay.contextMenu.visible /\ overlay'.contextMenu.visible) =>
          ClickInFrame]_vars

\* The menu was opened on b in edit mode and the mode is inspect now.
C22_Witness ==
  /\ overlay.interactionMode = "inspect"
  /\ overlay.contextMenu.target = "b"
  /\ ~overlay.contextMenu.visible
  /\ overlay.inspectedElement = NoElement
  /\ "edit" \in overlay.listeners
  /\ overlay.pointer = NoElement

\* C23: the inspection report and the context menu are never both visible,
\* and there is one of each at most: a click in inspect mode that the
\* overlay handles makes the element clicked the report, and a click in edit
\* mode that the overlay handles makes it the target of the menu, in place
\* of the one before.
C23_OneReportOrMenu ==
  /\ [](~(ReportVisible /\ MenuVisible))
  /\ [][ClickInFrame /\ overlay'.intercepted =>
          /\ overlay.interactionMode = "inspect" =>
               overlay'.inspectedElement = overlay.pointer
          /\ overlay.interactionMode = "edit" =>
               overlay'.contextMenu = [visible |-> TRUE,
                                       target |-> overlay.pointer]]_vars

\* The report of b is shown; the menu state that a listener of edit mode
\* stored at the same click is not.
C23_Witness ==
  /\ ReportVisible
  /\ overlay.inspectedElement = "b"
  /\ overlay.contextMenu = [visible |-> TRUE, target |-> "b"]
  /\ overlay.docReady

\* C24: in inspect mode, on a document the overlay is attached to, a click
\* on the body or on the root element leaves the inspection report as it
\* was; a click on any other element has its native action suppressed and
\* makes that element the report.
C24_BodyClickIgnored ==
  [][(/\ ClickInFrame
      /\ overlay.interactionMode = "inspect"
      /\ "inspect" \in overlay.listeners) =>
       IF overlay.pointer \in {"root", "body"}
         THEN overlay'.inspectedElement = overlay.inspectedElement
         ELSE /\ overlay'.intercepted
              /\ overlay'.inspectedElement = overlay.pointer]_vars

\* C25: while the source view is displayed neither the inspection report
\* nor the context menu is visible, whatever mode is selected and whatever
\* was inspected before the view was toggled.
C25_OverlayOnlyInPreview ==
  overlay.viewMode = "code" => ~ReportVisible /\ ~MenuVisible

\* C26: in inspect and edit mode at most one element of the rendered
\* document carries an overlay highlight, the body and the root element
\* never do, and when the pointer leaves an element that element carries no
\* highlight afterwards (so none is left when the pointer enters the next).
C26_OneHighlight ==
  /\ [](overlay.interactionMode \in {"inspect", "edit"} =>
          /\ Cardinality(overlay.highlighted) <= 1
          /\ overlay.highlighted \cap {"root", "body"} = {})
  /\ [][overlay.interactionMode \in {"inspect", "edit"} /\ MouseOut =>
          /\ overlay.pointer \notin overlay'.highlighted
          /\ overlay'.highlighted = {}]_vars

\* b is highlighted in edit mode after a was hovered and clicked.
C26_Witness ==
  /\ overlay.interactionMode = "edit"
  /\ overlay.highlighted = {"b"}
  /\ overlay.pointer = "b"
  /\ overlay.contextMenu = [visible |-> TRUE, target |-> "a"]

\* C27: a remove-element instruction is dispatched to the refinement path
\* only by the step in which the user accepted the confirmation; when the
\* confirmation is declined no request is dispatched and the artifact, the
\* history, the undo stack and the redo stack are unchanged.
C27_RemoveNeedsConfirmation ==
  /\ [][HandleContextMenuAction("delete", "cancel") =>
          UNCHANGED <<pending, isRefining, activeCreation, history,
                      undoStack, redoStack>>]_vars
  /\ [][((\E answer \in Answers : HandleContextMenuAction("delete", answer))
         /\ pending' # pending) =>
          HandleContextMenuAction("delete", "ok")]_vars
  /\ [][lastOp' = "remove_confirmed" /\ lastOp # "remove_confirmed" =>
          HandleContextMenuAction("delete", "ok")]_vars

\* The confirmation was declined after an edit of the artifact was undone.
C27_Witness ==
  /\ lastOp = "remove_declined"
  /\ overlay.contextMenu = [visible |-> FALSE, target |-> "a"]
  /\ pending = EmptyBag
  /\ ~isRefining
  /\ redoStack # <<>>

\* The frame shows a document.
DocumentShown == loaded /\ HasFrame(overlay, activeCreation, isGenerating)

\* C28: no overlay listener is attached to a document that has not finished
\* loading, and a document that has finished loading, whichever body change
\* or artifact switch made the frame load it, has the listeners of the
\* current mode attached when that mode is inspect or edit (the listeners
\* of interact mode do nothing).
C28_WiringFollowsLifecycle ==
  /\ DocumentShown /\ ~overlay.docReady => overlay.listeners = {}
  /\ (/\ DocumentShown
      /\ overlay.docReady
      /\ overlay.interactionMode \in {"inspect", "edit"}) =>
       overlay.interactionMode \in overlay.listeners

\* C29: applying cleanHtmlOutput to its own result gives that result again.
C29_CleanupIdempotent ==
  Len(rt.cleaned) = 2 => rt.cleaned[2] = rt.cleaned[1]

\* A raw text made of a fence with the language tag, a content without
\* fences, and a closing fence.
Fenced(content) == <<"fence", "html">> \o content \o <<"fence">>

\* C30: for a raw text made of a leading fence with language tag, a content
\* and a trailing fence, the cleaned text is exactly the content, the
\* whitespace next to the markers included.
C30_CleanupRemovesOnlyMarkers ==
  \A content \in Texts :
    (/\ \A k \in 1..Len(content) : content[k] # "fence"
     /\ rt.text = Fenced(content)
     /\ Len(rt.cleaned) >= 1) =>
       rt.cleaned[1] = content

\* A step in which updateActiveCreationHtml runs: a refinement that resolved
\* with a body, an undo or a redo.
UpdatesBody ==
  \/ \E base \in Creations, newHtml \in Bodies : RefineResolved(base, newHtml)
  \/ HandleUndo /\ undoStack # <<>>
  \/ HandleRedo /\ redoStack # <<>>

\* C31: a body update keeps the length and the order of history, changes no
\* entry other than the one with the active artifact's id, and changes
\* nothing when no artifact is active.
C31_UpdatesOnlyActiveEntry ==
  [][UpdatesBody =>
       /\ Len(history') = Len(history)
       /\ \A k \in 1..Len(history) :
            /\ history'[k].id = history[k].id
            /\ history[k].id # ActiveId => history'[k] = history[k]
       /\ activeCreation = NULL =>
            (history' = history /\ activeCreation' = NULL)]_vars

\* C32: a run of the persist effect that evicted entries and wrote the slot
\* leaves in memory the list it wrote, whatever the number of entries it
\* evicted.
C32_MemoryEqualsWritten ==
  [][(PersistEffect /\ lastOp' = "persist_evict" /\ slot' # slot) =>
       slot' = Stored(history')]_vars

\* C33: a refinement of the artifact that is still the active one, resolving
\* with a body, pushes onto the undo stack the body that is active when it
\* resolves, and the new body becomes the active body.
C33_RefinePushesActiveBody ==
  [][\A base \in Creations, newHtml \in Bodies :
       (RefineResolved(base, newHtml) /\ base.id = ActiveId) =>
         /\ undoStack' = Append(undoStack, activeCreation.html)
         /\ activeCreation'.html = newHtml]_vars

\* C34: the completion of a refinement, with or without a body, never
\* changes which artifact is active: after a reset none is, after another
\* artifact was activated that one stays.
C34_CompletionKeepsActive ==
  [][(\E base \in Creations :
        \/ \E newHtml \in 0..MaxBody : RefineResolved(base, newHtml)
        \/ \E error \in Errors : RefineRejected(base, error)) =>
       ActiveId' = ActiveId]_vars

\* The steps that start a remote call.
RemoteStarted ==
  pending' # pending /\ lastOp' \in {"generate_start", "refine_start"}

\* C35: a generate or refine call that fails, from the step that starts it
\* to the step that catches the error, leaves history, the slot and both
\* stacks as they were, and a failing refine also leaves the active artifact
\* and its body as they were.
C35_FailureChangesNothing ==
  [][/\ (RemoteStarted \/ RemoteFailed) =>
          UNCHANGED <<history, slot, undoStack, redoStack>>
     /\ (pending' # pending /\ lastOp' \in {"refine_start", "refine_fail"}) =>
          UNCHANGED activeCreation]_vars

C35_Witness ==
  /\ lastOp = "refine_fail"
  /\ undoStack # <<>>
  /\ history # <<>>
  /\ slot = Stored(history)

\* A remote call settles: bringToLife or refineApp (withRetry inside)
\* returned or threw, and the continuation of the handler runs.
RemoteSettles ==
  \/ \E html \in 0..MaxBody : GenerateResolved(html, NewCreation)
  \/ \E error \in Errors : GenerateRejected(error)
  \/ \E base \in Creations :
       \/ \E newHtml \in 0..MaxBody : RefineResolved(base, newHtml)
       \/ \E error \in Errors : RefineRejected(base, error)

\* The program after startup with one stored artifact: remote calls, the
\* operations available while one is outstanding, the persist effect.
BusyNext ==
  \/ PersistEffect
  \/ DismissAlert
  \/ HandleGenerate
  \/ HandleRefine
  \/ RemoteSettles
  \/ HandleUndo
  \/ HandleRedo
  \/ HandleReset
  \/ \E i \in 1..MaxId : HandleSelectCreation(i)

BusySpec == OverlayInit /\ [][BusyNext]_vars

\* The persist effect runs after a render that set history and the user
\* closes a blocking alert; every remote attempt and every backoff timer
\* completes, so every call settles (withRetry returns or throws), and its
\* continuation, a job queued on the event loop, runs however many user
\* events are handled meanwhile.
SettleSpec ==
  BusySpec /\ WF_vars(PersistEffect) /\ WF_vars(DismissAlert) /\ SF_vars(RemoteSettles)

\* C36: every generate and every refine ends with its busy flag false,
\* whether it succeeded, returned nothing or failed, and a busy flag that is
\* raised is eventually lowered.
C36_BusyReleased ==
  /\ [][(pending' # pending /\
         lastOp' \in {"generate_ok", "generate_empty", "generate_fail"}) =>
          ~isGenerating']_vars
  /\ [][(pending' # pending /\
         lastOp' \in {"refine_ok", "refine_empty", "refine_fail"}) =>
          ~isRefining']_vars
  /\ isGenerating ~> ~isGenerating
  /\ isRefining ~> ~isRefining

C36_Witness ==
  /\ lastOp = "generate_fail"
  /\ notice = "unavailable"
  /\ pending = EmptyBag
  /\ ~isGenerating
  /\ ~isRefining

\* C37: a run of the persist effect that starts with the active artifact in
\* history ends with the active artifact in history.
C37_EvictionKeepsActive ==
  [][(PersistEffect /\ activeCreation # NULL /\ HasId(history, ActiveId)) =>
       HasId(history', ActiveId)]_vars

\* ---- a session fed by cleanHtmlOutput ----
\* The body the handlers get for a cleaned text: 0 for the empty string,
\* else its length, capped at MaxBody.
BodyOf(text) == IF Len(text) < MaxBody THEN Len(text) ELSE MaxBody

\* bringToLife and refineApp return cleanHtmlOutput(response.text || "").
ReturnedBodies == {BodyOf(cleanHtmlOutput(text)) : text \in Texts}

SessionNext ==
  \/ PersistEffect
  \/ DismissAlert
  \/ HandleGenerate
  \/ \E html \in ReturnedBodies : GenerateResolved(html, NewCreation)
  \/ \E error \in Errors : GenerateRejected(error)
  \/ HandleRefine
  \/ \E base \in Creations, newHtml \in ReturnedBodies : RefineResolved(base, newHtml)
  \/ \E base \in Creations, error \in Errors : RefineRejected(base, error)
  \/ HandleUndo
  \/ HandleRedo
  \/ HandleReset
  \/ \E i \in 1..MaxId : HandleSelectCreation(i)
  \/ ImportCorrupt
  \/ \E parsed \in ImportSnapshots : HandleImportFile(parsed)

SessionSpec == OverlayInit /\ [][SessionNext]_vars

\* C38: whatever text the model returns and whatever file is imported, the
\* active artifact, every history entry and every undo and redo snapshot
\* has a non-empty body.
C38_NoEmptyBody ==
  /\ activeCreation # NULL => activeCreation.html # 0
  /\ \A k \in 1..Len(history) : history[k].html # 0
  /\ \A k \in 1..Len(undoStack) : undoStack[k] # 0
  /\ \A k \in 1..Len(redoStack) : redoStack[k] # 0

C38_Witness ==
  /\ activeCreation # NULL
  /\ Len(history) >= 2
  /\ undoStack # <<>>
  /\ redoStack # <<>>
  /\ 0 \in ReturnedBodies

====
